---- MODULE Spec2Model ----
(***************************************************************************)
(* Model of src/array.rs of libpd-rs: the named-array accessor.  Each of   *)
(* the six public functions is one atomic call into the pd engine followed *)
(* by a match on the integer the engine returns.  The engine side (the     *)
(* libpd_* entry points) is modelled from what array.rs documents about    *)
(* it.  The state is the engine's arrays plus a record of the call that    *)
(* has just been made: its arguments, the raw engine status, the value     *)
(* handed back and the caller's destination buffer after the call.  When   *)
(* the caller has taken the result (Return) only the arrays remain.        *)
(***************************************************************************)
EXTENDS Integers, Sequences, FiniteSets, TLC

\* ------------------------------------------------------------------ bounds
\* Largest array length of the model; it also stands for the engine's size limit.
MaxLen == 2
\* Largest offset, amount and caller-buffer length the callers pass.
MaxArg == 2
\* Stub-engine statuses range over -MaxStatus..MaxStatus (SpecStatus).
MaxStatus == 15

\* ------------------------------------------------------------------ data
\* Sample values held by arrays and source buffers.
Samples == {0, 1}
\* Names that resolve to an array in the loaded patch, and one that does not.
Existing == {"a", "b"}
Names == Existing \cup {"nx"}
\* The engine's limit on an array's size.
SizeLimit == MaxLen
SeqsUpTo(S, n) == UNION {[1..k -> S] : k \in 0..n}
\* Caller-owned source buffers of the write functions.
Sources == SeqsUpTo(Samples, MaxArg)
\* Caller-owned destination buffers of the read functions, filled with one
\* value that is no sample, so that a slot a read stored to is told from one it left.
Destinations == {[i \in 1..k |-> 2] : k \in 0..MaxArg}
\* Statuses a stubbed engine may answer (SpecStatus).
Statuses == (-MaxStatus)..MaxStatus
Args == 0..MaxArg
Sizes == (-1)..(SizeLimit + 1)

\* Result<_, LibpdError> values.
Ok(v) == [kind |-> "Ok", value |-> v]
Err(e) == [kind |-> e, value |-> 0]
Unit == 0
CouldNotDetermine == "SizeError::CouldNotDetermine"
OutOfBounds == "ArrayError::OutOfBounds"
NonExistent == "ArrayError::NonExistent"
\* The call never returned: the process died inside the engine.
Aborted == [kind |-> "aborted", value |-> 0]

VARIABLES arrays, call, status, result, dest, ub, engineCalls, written, echo

vars == <<arrays, call, status, result, dest, ub, engineCalls, written, echo>>

Call(op, name, offset, amount, buf) ==
    [op |-> op, name |-> name, offset |-> offset, amount |-> amount, buf |-> buf]

ReadOps == {"read_float_array_from", "read_double_array_from"}
WriteOps == {"write_float_array_to", "write_double_array_to"}
\* The read of the same precision as a write.
ReadOf(op) ==
    IF op = "write_float_array_to" THEN "read_float_array_from" ELSE "read_double_array_from"

\* No call is under way: the last one has returned and its result was taken.
NoCall == Call("none", "", 0, 0, <<>>)
NoResult == [kind |-> "none", value |-> 0]
Idle == call = NoCall

\* History for the round trip.  written holds the last call made when that was
\* a successful write whose source held at least amount elements: its
\* arguments and the elements written.  echo.on says that the call just made is
\* a read that immediately follows such a write, of the same precision, name,
\* offset and amount, into a destination of at least offset + amount elements;
\* echo.data is what was written.
NoWrite == [on |-> FALSE, op |-> "none", name |-> "", offset |-> 0, amount |-> 0,
            data |-> <<>>]
WrittenBy(op, name, offset, source, amount) ==
    IF result' = Ok(Unit) /\ ~ub'
    THEN [on |-> TRUE, op |-> op, name |-> name, offset |-> offset, amount |-> amount,
          data |-> SubSeq(source, 1, amount)]
    ELSE NoWrite
NoEcho == [on |-> FALSE, data |-> <<>>]
EchoOf(op, name, amount, destination, offset) ==
    IF /\ written.on
       /\ op = ReadOf(written.op)
       /\ name = written.name
       /\ amount = written.amount
       /\ offset = written.offset
       /\ Len(destination) >= offset + amount
    THEN [on |-> TRUE, data |-> written.data]
    ELSE NoEcho

\* ------------------------------------------------------------------ engine
\* The value returned by libpd_arraysize:
\* "Returns size or negative error code if non-existent".
libpd_arraysize(name) ==
    IF name \in DOMAIN arrays THEN Len(arrays[name]) ELSE -1

\* "Sizes <= 0 or > size limit are clipped to 1"
ClipSize(size) ==
    IF size <= 0 \/ size > SizeLimit THEN 1 ELSE size

\* The arrays an engine resize may leave: the kept prefix, new elements unspecified.
Resized(arr, n) ==
    {s \in [1..n -> Samples] : \A i \in 1..n : i <= Len(arr) => s[i] = arr[i]}

\* libpd_resize_array: "returns 0 on success or negative error code if non-existent".
libpd_resize_array(name, size) ==
    /\ dest' = <<>>
    /\ ub' = FALSE
    /\ IF name \in DOMAIN arrays
       THEN /\ status' = 0
            /\ \E a \in Resized(arrays[name], ClipSize(size)) :
                   arrays' = [arrays EXCEPT ![name] = a]
       ELSE /\ status' = -1
            /\ UNCHANGED arrays

\* The status of a read or write: "Returns 0 on success or a negative error code
\* if the array is non-existent or offset + n exceeds range of array"; -2 is
\* the code the callers match as out of bounds.
ArrayStatus(name, offset, n) ==
    IF name \notin DOMAIN arrays THEN -1
    ELSE IF offset + n > Len(arrays[name]) THEN -2
    ELSE 0

\* A read "reads values as much as read_amount from the array ... and writes
\* them to destination starting at destination_offset".  Only the slots the
\* slice owns are represented; a copy that runs past them is flagged by ub.
ReadInto(destination, arr, offset, n) ==
    [j \in 1..Len(destination) |->
        IF offset < j /\ j <= offset + n THEN arr[j - offset] ELSE destination[j]]

\* A write "reads values as much as read_amount from the array which is given
\* as the source argument and writes them to a named array ... starting at
\* destination_offset".  g supplies what lies past the end of a short source.
WriteInto(arr, offset, source, g, n) ==
    [j \in 1..Len(arr) |->
        IF offset < j /\ j <= offset + n
        THEN (IF j - offset <= Len(source) THEN source[j - offset] ELSE g[j - offset])
        ELSE arr[j]]

\* What the engine may find past the end of a source of fewer than n elements.
Beyond(source, n) ==
    IF n > Len(source) THEN [(Len(source) + 1)..n -> Samples] ELSE {<<>>}

\* libpd_read_array and libpd_read_array_double, given the destination slice the
\* pointer comes from.  With status 0 and a slice shorter than offset + n the
\* copy runs past the slice (ub).
EngineRead(destination, name, offset, n) ==
    LET s == ArrayStatus(name, offset, n) IN
    /\ status' = s
    /\ UNCHANGED arrays
    /\ IF s = 0
       THEN /\ dest' = ReadInto(destination, arrays[name], offset, n)
            /\ ub' = (offset + n > Len(destination))
       ELSE /\ dest' = destination
            /\ ub' = FALSE

libpd_read_array(destination, name, offset, n) ==
    EngineRead(destination, name, offset, n)

libpd_read_array_double(destination, name, offset, n) ==
    EngineRead(destination, name, offset, n)

\* libpd_write_array and libpd_write_array_double, given the source slice the
\* pointer comes from.  With status 0 and a slice shorter than n the engine
\* reads past the slice (ub) and stores whatever it finds there.
EngineWrite(name, offset, source, n) ==
    LET s == ArrayStatus(name, offset, n) IN
    /\ status' = s
    /\ dest' = <<>>
    /\ IF s = 0
       THEN /\ \E g \in Beyond(source, n) :
                   arrays' = [arrays EXCEPT
                                ![name] = WriteInto(arrays[name], offset, source, g, n)]
            /\ ub' = (n > Len(source))
       ELSE /\ UNCHANGED arrays
            /\ ub' = FALSE

libpd_write_array(name, offset, source, n) ==
    EngineWrite(name, offset, source, n)

libpd_write_array_double(name, offset, source, n) ==
    EngineWrite(name, offset, source, n)

\* An engine stubbed to answer the status s and transfer nothing (SpecStatus).
StubEngine(s) ==
    /\ status' = s
    /\ dest' = <<>>
    /\ ub' = FALSE
    /\ UNCHANGED arrays

\* ------------------------------------------------------------------ matches
\* What the caller gets when the match yields m: m itself, unless the engine
\* ran outside a slice, when the process may also die before returning.
Returned(m) == IF ub' THEN {m, Aborted} ELSE {m}

array_size_match_positive(r) ==
    IF r > 0 THEN Ok(r) ELSE Err(CouldNotDetermine)

array_size_match(r) ==
    IF r >= 0 THEN Ok(r) ELSE Err(CouldNotDetermine)

resize_array_match_nonpositive(s) ==
    IF s <= 0 THEN Ok(Unit) ELSE Err(CouldNotDetermine)

resize_array_match(s) ==
    IF s = 0 THEN Ok(Unit) ELSE Err(CouldNotDetermine)

read_float_array_from_match(s) ==
    IF s = 0 THEN Ok(Unit) ELSE IF s = -2 THEN Err(OutOfBounds) ELSE Err(NonExistent)

write_float_array_to_match_one_arm(s) ==
    IF s = 0 THEN Ok(Unit) ELSE Err(NonExistent)

write_float_array_to_match(s) ==
    IF s = 0 THEN Ok(Unit) ELSE IF s = -2 THEN Err(OutOfBounds) ELSE Err(NonExistent)

read_double_array_from_match_minus_one(s) ==
    IF s = 0 THEN Ok(Unit) ELSE IF s = -1 THEN Err(OutOfBounds) ELSE Err(NonExistent)

read_double_array_from_match(s) ==
    IF s = 0 THEN Ok(Unit) ELSE IF s = -2 THEN Err(OutOfBounds) ELSE Err(NonExistent)

write_double_array_to_match_negative_only(s) ==
    IF s >= 0 THEN Ok(Unit) ELSE IF s = -2 THEN Err(OutOfBounds) ELSE Err(NonExistent)

write_double_array_to_match(s) ==
    IF s = 0 THEN Ok(Unit) ELSE IF s = -2 THEN Err(OutOfBounds) ELSE Err(NonExistent)

\* ------------------------------------------------------------------ initial state
Init ==
    /\ arrays \in [Existing -> SeqsUpTo(Samples, MaxLen)]
    /\ call = NoCall
    /\ status = 0
    /\ result = NoResult
    /\ dest = <<>>
    /\ ub = FALSE
    /\ engineCalls = 0
    /\ written = NoWrite
    /\ echo = NoEcho

\* ------------------------------------------------------------------ operations
array_size(name) ==
    /\ call' = Call("array_size", name, 0, 0, <<>>)
    /\ echo' = NoEcho
    /\ written' = NoWrite
    /\ status' = libpd_arraysize(name)
    /\ dest' = <<>>
    /\ ub' = FALSE
    /\ UNCHANGED arrays
    /\ engineCalls' = 1
    /\ result' = array_size_match(status')

\* resize_array rejecting a size <= 0 itself, without asking the engine.
resize_array_prevalidating(name, size) ==
    /\ call' = Call("resize_array", name, 0, size, <<>>)
    /\ echo' = NoEcho
    /\ written' = NoWrite
    /\ IF size <= 0
       THEN /\ status' = -1
            /\ dest' = <<>>
            /\ ub' = FALSE
            /\ UNCHANGED arrays
            /\ engineCalls' = 0
       ELSE /\ libpd_resize_array(name, size)
            /\ engineCalls' = 1
    /\ result' = resize_array_match(status')

resize_array(name, size) ==
    /\ call' = Call("resize_array", name, 0, size, <<>>)
    /\ echo' = NoEcho
    /\ written' = NoWrite
    /\ libpd_resize_array(name, size)
    /\ engineCalls' = 1
    /\ result' = resize_array_match(status')

\* read_float_array_from passing its last two arguments in the other order.
read_float_array_from_swapped(source_name, read_amount, destination, destination_offset) ==
    /\ call' = Call("read_float_array_from", source_name, destination_offset,
                    read_amount, destination)
    /\ echo' = EchoOf("read_float_array_from", source_name, read_amount, destination,
                      destination_offset)
    /\ written' = NoWrite
    /\ libpd_read_array(destination, source_name, read_amount, destination_offset)
    /\ engineCalls' = 1
    /\ result' \in Returned(read_float_array_from_match(status'))

read_float_array_from(source_name, read_amount, destination, destination_offset) ==
    /\ call' = Call("read_float_array_from", source_name, destination_offset,
                    read_amount, destination)
    /\ echo' = EchoOf("read_float_array_from", source_name, read_amount, destination,
                      destination_offset)
    /\ written' = NoWrite
    /\ libpd_read_array(destination, source_name, destination_offset, read_amount)
    /\ engineCalls' = 1
    /\ result' \in Returned(read_float_array_from_match(status'))

\* write_float_array_to passing offset and amount in the other order.
write_float_array_to_swapped(destination_name, destination_offset, source, read_amount) ==
    /\ call' = Call("write_float_array_to", destination_name, destination_offset,
                    read_amount, source)
    /\ echo' = NoEcho
    /\ libpd_write_array(destination_name, read_amount, source, destination_offset)
    /\ engineCalls' = 1
    /\ result' \in Returned(write_float_array_to_match(status'))
    /\ written' = WrittenBy("write_float_array_to", destination_name, destination_offset,
                          source, read_amount)

write_float_array_to(destination_name, destination_offset, source, read_amount) ==
    /\ call' = Call("write_float_array_to", destination_name, destination_offset,
                    read_amount, source)
    /\ echo' = NoEcho
    /\ libpd_write_array(destination_name, destination_offset, source, read_amount)
    /\ engineCalls' = 1
    /\ result' \in Returned(write_float_array_to_match(status'))
    /\ written' = WrittenBy("write_float_array_to", destination_name, destination_offset,
                          source, read_amount)

\* read_double_array_from passing offset 0 whatever destination_offset is.
read_double_array_from_no_offset(source_name, read_amount, destination, destination_offset) ==
    /\ call' = Call("read_double_array_from", source_name, destination_offset,
                    read_amount, destination)
    /\ echo' = EchoOf("read_double_array_from", source_name, read_amount, destination,
                      destination_offset)
    /\ written' = NoWrite
    /\ libpd_read_array_double(destination, source_name, 0, read_amount)
    /\ engineCalls' = 1
    /\ result' \in Returned(read_double_array_from_match(status'))

read_double_array_from(source_name, read_amount, destination, destination_offset) ==
    /\ call' = Call("read_double_array_from", source_name, destination_offset,
                    read_amount, destination)
    /\ echo' = EchoOf("read_double_array_from", source_name, read_amount, destination,
                      destination_offset)
    /\ written' = NoWrite
    /\ libpd_read_array_double(destination, source_name, destination_offset, read_amount)
    /\ engineCalls' = 1
    /\ result' \in Returned(read_double_array_from_match(status'))

write_double_array_to(destination_name, destination_offset, source, read_amount) ==
    /\ call' = Call("write_double_array_to", destination_name, destination_offset,
                    read_amount, source)
    /\ echo' = NoEcho
    /\ libpd_write_array_double(destination_name, destination_offset, source, read_amount)
    /\ engineCalls' = 1
    /\ result' \in Returned(write_double_array_to_match(status'))
    /\ written' = WrittenBy("write_double_array_to", destination_name, destination_offset,
                          source, read_amount)

\* The caller takes the result and its buffers; nothing of the call stays behind.
Return ==
    /\ ~Idle
    /\ call' = NoCall
    /\ status' = 0
    /\ result' = NoResult
    /\ dest' = <<>>
    /\ ub' = FALSE
    /\ engineCalls' = 0
    /\ echo' = NoEcho
    /\ UNCHANGED <<arrays, written>>

\* A call is made when none is under way (each call is synchronous).
Next ==
    \/ Return
    \/ Idle /\ \E name \in Names : array_size(name)
    \/ Idle /\ \E name \in Names, size \in Sizes : resize_array(name, size)
    \/ Idle /\ \E name \in Names, n \in Args, d \in Destinations, o \in Args :
                   read_float_array_from(name, n, d, o)
    \/ Idle /\ \E name \in Names, n \in Args, d \in Destinations, o \in Args :
                   read_double_array_from(name, n, d, o)
    \/ Idle /\ \E name \in Names, o \in Args, src \in Sources, n \in Args :
                   write_float_array_to(name, o, src, n)
    \/ Idle /\ \E name \in Names, o \in Args, src \in Sources, n \in Args :
                   write_double_array_to(name, o, src, n)

Spec == Init /\ [][Next]_vars

\* ------------------------------------------------------------------ status mapping
\* The match of each read/write function over an engine stubbed to answer any
\* status: the call is recorded, the stub answers, the function's match decides.
read_float_array_from_on(s) ==
    /\ call' = Call("read_float_array_from", "a", 0, 0, <<>>)
    /\ echo' = NoEcho
    /\ written' = NoWrite
    /\ StubEngine(s)
    /\ engineCalls' = 1
    /\ result' \in Returned(read_float_array_from_match(status'))

write_float_array_to_on(s) ==
    /\ call' = Call("write_float_array_to", "a", 0, 0, <<>>)
    /\ echo' = NoEcho
    /\ StubEngine(s)
    /\ engineCalls' = 1
    /\ result' \in Returned(write_float_array_to_match(status'))
    /\ written' = WrittenBy("write_float_array_to", "a", 0, <<>>, 0)

read_double_array_from_on(s) ==
    /\ call' = Call("read_double_array_from", "a", 0, 0, <<>>)
    /\ echo' = NoEcho
    /\ written' = NoWrite
    /\ StubEngine(s)
    /\ engineCalls' = 1
    /\ result' \in Returned(read_double_array_from_match(status'))

write_double_array_to_on(s) ==
    /\ call' = Call("write_double_array_to", "a", 0, 0, <<>>)
    /\ echo' = NoEcho
    /\ StubEngine(s)
    /\ engineCalls' = 1
    /\ result' \in Returned(write_double_array_to_match(status'))
    /\ written' = WrittenBy("write_double_array_to", "a", 0, <<>>, 0)

NextStatus ==
    \/ Return
    \/ Idle /\ \E s \in Statuses : read_float_array_from_on(s)
    \/ Idle /\ \E s \in Statuses : write_float_array_to_on(s)
    \/ Idle /\ \E s \in Statuses : read_double_array_from_on(s)
    \/ Idle /\ \E s \in Statuses : write_double_array_to_on(s)

SpecStatus == Init /\ [][NextStatus]_vars

\* ------------------------------------------------------------------ claims
IsRead == call.op \in ReadOps
IsWrite == call.op \in WriteOps
ErrorKinds == {CouldNotDetermine, OutOfBounds, NonExistent}
\* Slot j of a buffer or array lies in the transferred range of the call c.
InRange(c, j) == c.offset < j /\ j <= c.offset + c.amount

\* C1 as claimed: a successful write(name, offset, buf, count) with buf of at
\* least count elements, immediately followed by read(name, count, out_buf, offset)
\* of the same precision with out_buf of at least offset + count elements,
\* succeeds and leaves out_buf[offset .. offset+count) equal to buf[0 .. count).
C1_RoundTripLaw ==
    echo.on =>
        /\ result = Ok(Unit)
        /\ \A i \in 1..call.amount : dest[call.offset + i] = echo.data[i]

\* C1 as amended: the round trip holds when the offset is 0 (the read copies
\* from index 0 of the array, the write stores at index offset of the array).
C1_RoundTripAtZero ==
    (echo.on /\ call.offset = 0) =>
        /\ result = Ok(Unit)
        /\ \A i \in 1..call.amount : dest[i] = echo.data[i]

C1_Witness ==
    /\ echo.on
    /\ call.offset = 0
    /\ call.amount = 2
    /\ echo.data = <<1, 0>>
    /\ dest = <<1, 0>>

\* C2: resize_array on an existing name returns Ok, and the size array_size
\* then reports is new_size when 0 < new_size <= limit and 1 otherwise; so
\* after a successful resize the reported size is at least 1.
C2_ClippingLaw ==
    (call.op = "resize_array" /\ call.name \in Existing) =>
        /\ result = Ok(Unit)
        /\ array_size_match(libpd_arraysize(call.name)) =
               Ok(IF call.amount > 0 /\ call.amount <= SizeLimit THEN call.amount ELSE 1)
        /\ Len(arrays[call.name]) >= 1

C2_Witness ==
    /\ call.op = "resize_array"
    /\ call.name = "a"
    /\ call.amount = 0
    /\ result = Ok(Unit)
    /\ Len(arrays["a"]) = 1

\* C3: a read or write on an existing array with offset + count beyond the
\* array's length returns ArrayOutOfBounds, and nothing is copied: the
\* destination buffer (read) and every array (write) are as before the call.
C3_OutOfBoundsCopiesNothing ==
    [][(/\ call'.op \in ReadOps \cup WriteOps
        /\ call'.name \in DOMAIN arrays
        /\ call'.offset + call'.amount > Len(arrays[call'.name]))
       => (/\ result' = Err(OutOfBounds)
           /\ arrays' = arrays
           /\ ~ub'
           /\ (call'.op \in ReadOps => dest' = call'.buf))]_vars

C3_Witness ==
    /\ IsRead
    /\ call.name \in Existing
    /\ call.amount >= 1
    /\ call.offset + call.amount > Len(arrays[call.name])
    /\ Len(call.buf) >= call.offset + call.amount
    /\ result = Err(OutOfBounds)
    /\ dest = call.buf

\* C4: a read or write whose name resolves to no array returns
\* ArrayNonExistent for every offset and count, and changes neither the
\* caller's buffer nor any array.
C4_NonExistentName ==
    [][(/\ call'.op \in ReadOps \cup WriteOps
        /\ call'.name \notin DOMAIN arrays)
       => (/\ result' = Err(NonExistent)
           /\ arrays' = arrays
           /\ ~ub'
           /\ (call'.op \in ReadOps => dest' = call'.buf))]_vars

C4_Witness ==
    /\ IsWrite
    /\ call.name = "nx"
    /\ call.offset = MaxArg
    /\ call.amount = MaxArg
    /\ result = Err(NonExistent)

\* C5: array_size returns Ok(n), n the array's element count (0 included), for
\* an existing name, and the SizeError::CouldNotDetermine error for a name
\* with no array; it never returns Ok of a negative value.
C5_ArraySize ==
    call.op = "array_size" =>
        /\ call.name \in DOMAIN arrays => result = Ok(Len(arrays[call.name]))
        /\ call.name \notin DOMAIN arrays => result = Err(CouldNotDetermine)
        /\ result.kind = "Ok" => result.value >= 0

C5_Witness ==
    /\ call.op = "array_size"
    /\ call.name = "nx"
    /\ status < 0
    /\ result = Err(CouldNotDetermine)

\* C6: after a successful read, destination[destination_offset + i] = array[i]
\* for every i < read_amount, and the destination's other elements are unchanged.
C6_ReadCopies ==
    (IsRead /\ result = Ok(Unit)) =>
        /\ Len(dest) = Len(call.buf)
        /\ ~ub => call.offset + call.amount <= Len(dest)
        /\ \A j \in 1..Len(dest) :
               IF InRange(call, j)
               THEN dest[j] = arrays[call.name][j - call.offset]
               ELSE dest[j] = call.buf[j]

C6_Witness ==
    /\ IsRead
    /\ result = Ok(Unit)
    /\ ~ub
    /\ call.offset = 1
    /\ call.amount = 1
    /\ dest = <<2, 1>>

\* C7: a read with destination_offset + read_amount greater than the length
\* of the destination slice returns an error.
C7_ShortDestinationIsError ==
    (IsRead /\ call.offset + call.amount > Len(call.buf)) =>
        result.kind \in ErrorKinds

\* C8: resize_array returns Ok exactly when the engine's status is 0 and the
\* SizeError::CouldNotDetermine error otherwise; for a name with no array it
\* returns that error for every size, and the set of existing names never changes.
C8_ResizeStatusAndNames ==
    /\ DOMAIN arrays = Existing
    /\ call.op = "resize_array" =>
           /\ result = Ok(Unit) <=> status = 0
           /\ status # 0 => result = Err(CouldNotDetermine)
           /\ call.name \notin Existing => result = Err(CouldNotDetermine)

C8_Witness ==
    /\ call.op = "resize_array"
    /\ call.name = "nx"
    /\ call.amount = 1
    /\ status # 0
    /\ result = Err(CouldNotDetermine)

\* C9: each read/write function returns Ok iff the engine's status is 0,
\* ArrayOutOfBounds iff it is -2 and ArrayNonExistent for every other status,
\* negative or positive, after exactly one engine call.
C9_StatusMapping ==
    call.op \in ReadOps \cup WriteOps =>
        /\ result = Ok(Unit) <=> status = 0
        /\ result = Err(OutOfBounds) <=> status = -2
        /\ result = Err(NonExistent) <=> status \notin {0, -2}
        /\ engineCalls = 1

C9_Witness ==
    /\ call.op = "write_double_array_to"
    /\ status > 0
    /\ result = Err(NonExistent)

\* C10: array_size and the reads change no array; a successful write changes
\* only elements [offset, offset + count) of the named array, keeping every
\* length and every other element; a call that returns an error changes no array.
C10_Frame ==
    [][/\ call'.op \in {"array_size"} \cup ReadOps => arrays' = arrays
       /\ (call'.op \in WriteOps /\ result' = Ok(Unit)) =>
              /\ DOMAIN arrays' = DOMAIN arrays
              /\ \A nm \in DOMAIN arrays :
                     /\ Len(arrays'[nm]) = Len(arrays[nm])
                     /\ \A j \in 1..Len(arrays[nm]) :
                            (nm # call'.name \/ ~InRange(call', j)) =>
                                arrays'[nm][j] = arrays[nm][j]
       /\ result'.kind \in ErrorKinds => arrays' = arrays]_vars

C10_Witness ==
    /\ IsWrite
    /\ result = Ok(Unit)
    /\ call.name = "a"
    /\ call.offset = 1
    /\ call.amount = 1
    /\ call.buf = <<1>>
    /\ arrays["a"] = <<0, 1>>

====
